---- MODULE Spec2Model ----
(***************************************************************************)
(* Messaging core of server.py: the ConnectionManager registry, the        *)
(* /ws/{user_id} socket handler, create_message, get_user_messages and     *)
(* get_conversations, over a message collection and a user directory;      *)
(* and the free-posting quota of create_job and verify_payment.            *)
(***************************************************************************)
EXTENDS Integers, Sequences, FiniteSets, TLC

(* ---------------------------------------------------------------------- *)
(* Bounds of the model                                                     *)
(* ---------------------------------------------------------------------- *)
MaxConns == 2        \* connections opened, Spec
MaxFrames == 2       \* frames transmitted, Spec
MaxPushMsgs == 1     \* messages sent, Spec
MaxMsgs == 3         \* messages sent, SpecStore
MaxReqs == 2         \* create_message requests in flight, SpecStore
MaxTime == 1         \* clock ticks, SpecStore and SpecConv
MaxStoreConns == 1   \* connections opened, SpecStore
MaxConvMsgs == 2     \* messages sent, SpecConv
MaxJobReqs == 2      \* create_job requests in flight, SpecJobs
MaxPayments == 1     \* payments verified, SpecJobs

(* to_list(1000) of get_user_messages and to_list(100) of get_conversations, *)
(* scaled down so that the truncation happens with MaxMsgs messages.         *)
HistoryLimit == 2
ConvLimit == 2

Conns == 1..MaxConns
Reqs == 1..MaxReqs
NoConn == 0
NoMsg == 0

(* ---------------------------------------------------------------------- *)
(* Identifiers.  A user identifier is a string, modelled as a sequence of  *)
(* characters; bson's ObjectId(s) accepts a string of hexadecimal digits   *)
(* of the fixed length (24 in bson, 2 here) and raises InvalidId otherwise *)
(* ---------------------------------------------------------------------- *)
HexDigits == {"0", "1", "2", "3", "4", "5", "6", "7", "8", "9", "a", "b", "c", "d", "e", "f"}

U1 == <<"a", "1">>
U2 == <<"a", "2">>
Ghost == <<"f", "f">>
Malformed == <<"u", "2">>

UserIds == {U1, U2, Ghost, Malformed}

ObjectIdValid(s) == Len(s) = 2 /\ \A i \in 1..Len(s) : s[i] \in HexDigits

(* db.users: the directory, keyed by ObjectId, here by its hex string *)
Users == [id \in {U1, U2} |-> [name |-> <<"name", id>>]]

NoUser == [none |-> TRUE]

\* db.users.find_one({"_id": oid})
FindUser(oid) == IF oid \in DOMAIN Users THEN Users[oid] ELSE NoUser

JobIds == {"j1"}
Bodies == {"hello"}

(* ---------------------------------------------------------------------- *)
(* Inbound socket frames: the text of a frame either is no JSON or is the  *)
(* JSON text of a value                                                    *)
(* ---------------------------------------------------------------------- *)
JsonValues ==
    { [t |-> "object", type |-> "ping"],
      [t |-> "object", type |-> "chat"],
      [t |-> "object", type |-> "absent"],
      [t |-> "array"], [t |-> "number"], [t |-> "string"], [t |-> "null"] }

InFrames == {[json |-> FALSE]} \cup {[json |-> TRUE, value |-> v] : v \in JsonValues}

PingFrame == [json |-> TRUE, value |-> [t |-> "object", type |-> "ping"]]

Pong == [type |-> "pong"]

VARIABLES
    active_connections,   \* ConnectionManager.active_connections: user id -> connection
    wpc,                  \* websocket_endpoint instance of a connection: where it is
    wuser,                \* its user_id path parameter
    alive,                \* the transport of a connection is up
    inbox,                \* frames the server transmitted on a connection
    registered,           \* connections in the order connect() installed them
    log,                  \* db.messages, in insertion order
    now,                  \* datetime.utcnow(), in the store's resolution
    rpc,                  \* create_message request: where it is
    rmsg,                 \* create_message request: its msg_dict
    last,                 \* the request or frame just handled and its answer
    freeJobsRemaining,    \* the employer's document in db.users: its free postings
    jobs,                 \* number of documents of the employer in db.jobs
    payments,             \* number of payments verify_payment credited
    transactions,         \* number of documents in db.transactions
    jpc,                  \* create_job request: where it is
    jseen,                \* create_job request: freeJobsRemaining of the employer it read
    ppc                   \* verify_payment request: where it is

vars == <<active_connections, wpc, wuser, alive, inbox, registered, log, now, rpc, rmsg, last,
          freeJobsRemaining, jobs, payments, transactions, jpc, jseen, ppc>>

wsVars == <<active_connections, wpc, wuser, alive, inbox, registered>>
reqVars == <<rpc, rmsg>>
jobVars == <<freeJobsRemaining, jobs, payments, transactions, jpc, jseen, ppc>>

(* ---------------------------------------------------------------------- *)
(* ConnectionManager                                                       *)
(* ---------------------------------------------------------------------- *)
\* connect() that keeps the entry a user already has
ConnectKeepFirst(ws, user_id) ==
    IF active_connections[user_id] # NoConn
    THEN active_connections
    ELSE [active_connections EXCEPT ![user_id] = ws]

Connect(ws, user_id) == [active_connections EXCEPT ![user_id] = ws]

Disconnect(user_id) ==
    IF active_connections[user_id] # NoConn
    THEN [active_connections EXCEPT ![user_id] = NoConn]
    ELSE active_connections

(* send_json raises on a connection whose transport is down *)
SendJsonRaises(ws) == ~alive[ws]

(* send_message without the try/except around send_json *)
SendMessageNoCatch(user_id, message) ==
    IF active_connections[user_id] # NoConn
    THEN LET ws == active_connections[user_id] IN
         IF SendJsonRaises(ws)
         THEN [inbox |-> inbox, raised |-> TRUE]
         ELSE [inbox |-> [inbox EXCEPT ![ws] = Append(@, message)], raised |-> FALSE]
    ELSE [inbox |-> inbox, raised |-> FALSE]

(* send_message: the frames on every connection afterwards, and whether an *)
(* exception leaves the call                                               *)
SendMessage(user_id, message) ==
    IF active_connections[user_id] # NoConn
    THEN LET ws == active_connections[user_id] IN
         IF SendJsonRaises(ws)
         THEN [inbox |-> inbox, raised |-> FALSE]
         ELSE [inbox |-> [inbox EXCEPT ![ws] = Append(@, message)], raised |-> FALSE]
    ELSE [inbox |-> inbox, raised |-> FALSE]

(* ---------------------------------------------------------------------- *)
(* websocket_endpoint                                                      *)
(* ---------------------------------------------------------------------- *)
\* the endpoint is entered and awaits websocket.accept()
WsAccept(c, user_id) ==
    /\ wpc[c] = "idle"
    /\ wpc' = [wpc EXCEPT ![c] = "connecting"]
    /\ wuser' = [wuser EXCEPT ![c] = user_id]
    /\ alive' = [alive EXCEPT ![c] = TRUE]
    /\ last' = [op |-> "step"]
    /\ UNCHANGED <<active_connections, inbox, registered, log, now, reqVars, jobVars>>

\* accept() returned: connect() installs the connection, the loop starts
WsRegister(c) ==
    /\ wpc[c] = "connecting"
    /\ alive[c]
    /\ active_connections' = Connect(c, wuser[c])
    /\ registered' = Append(registered, c)
    /\ wpc' = [wpc EXCEPT ![c] = "open"]
    /\ last' = [op |-> "step"]
    /\ UNCHANGED <<wuser, alive, inbox, log, now, reqVars, jobVars>>

\* the peer closes the transport, gracefully or not
PeerClose(c) ==
    /\ wpc[c] \in {"connecting", "open"}
    /\ alive[c]
    /\ alive' = [alive EXCEPT ![c] = FALSE]
    /\ last' = [op |-> "step"]
    /\ UNCHANGED <<active_connections, wpc, wuser, inbox, registered, log, now, reqVars, jobVars>>

\* accept() raises on a transport that is down: the exception leaves the
\* endpoint before the try block
WsAcceptFails(c) ==
    /\ wpc[c] = "connecting"
    /\ ~alive[c]
    /\ wpc' = [wpc EXCEPT ![c] = "closed"]
    /\ last' = [op |-> "step"]
    /\ UNCHANGED <<active_connections, wuser, alive, inbox, registered, log, now, reqVars, jobVars>>

\* what the loop body does with the text of one frame
HandleFrame(user_id, data) ==
    IF ~data.json
    THEN [inbox |-> inbox, exit |-> FALSE]               \* json.JSONDecodeError: pass
    ELSE IF data.value.t # "object"
    THEN [inbox |-> inbox, exit |-> TRUE]                \* obj.get: AttributeError
    ELSE IF data.value.type = "ping"
    THEN [inbox |-> SendMessage(user_id, Pong).inbox, exit |-> FALSE]
    ELSE [inbox |-> inbox, exit |-> FALSE]

\* receive_text() returns a frame and the loop body runs
WsReceive(c, data) ==
    /\ wpc[c] = "open"
    /\ alive[c]
    /\ LET h == HandleFrame(wuser[c], data) IN
       /\ inbox' = h.inbox
       /\ IF h.exit
          THEN /\ active_connections' = Disconnect(wuser[c])   \* except Exception
               /\ wpc' = [wpc EXCEPT ![c] = "closed"]
               /\ alive' = [alive EXCEPT ![c] = FALSE]
          ELSE UNCHANGED <<active_connections, wpc, alive>>
    /\ last' = [op |-> "receive", conn |-> c, data |-> data]
    /\ UNCHANGED <<wuser, registered, log, now, reqVars, jobVars>>

\* receive_text() raises WebSocketDisconnect
WsDisconnect(c) ==
    /\ wpc[c] = "open"
    /\ ~alive[c]
    /\ active_connections' = Disconnect(wuser[c])
    /\ wpc' = [wpc EXCEPT ![c] = "closed"]
    /\ last' = [op |-> "step"]
    /\ UNCHANGED <<wuser, alive, inbox, registered, log, now, reqVars, jobVars>>

(* ---------------------------------------------------------------------- *)
(* Message store                                                           *)
(* ---------------------------------------------------------------------- *)
Range(f) == {f[i] : i \in DOMAIN f}

\* str(ObjectId) of a message document
StrId(oid) == <<"m", oid>>

\* datetime.isoformat() + "Z"
IsoZ(t) == [iso |-> t, suffix |-> "Z"]

\* insert_one whose write is lost
InsertOneLost(doc) == log

\* insert_one: the collection afterwards; the store assigns _id
InsertOne(doc) ==
    Append(log, [_id |-> Len(log) + 1, senderId |-> doc.senderId,
                 receiverId |-> doc.receiverId, jobId |-> doc.jobId,
                 message |-> doc.message, timestamp |-> doc.timestamp,
                 read |-> doc.read])

\* serialize_doc of a message document: _id becomes the string id
SerializeDoc(doc) ==
    [id |-> StrId(doc._id), senderId |-> doc.senderId, receiverId |-> doc.receiverId,
     jobId |-> doc.jobId, message |-> doc.message, timestamp |-> doc.timestamp,
     read |-> doc.read]

\* msg_for_ws with the two user fields exchanged
MsgForWsSwapped(d) ==
    [id |-> d.id, senderId |-> d.receiverId, receiverId |-> d.senderId,
     message |-> d.message, jobId |-> d.jobId, timestamp |-> IsoZ(d.timestamp),
     read |-> d.read]

\* msg_for_ws of create_message
MsgForWs(d) ==
    [id |-> d.id, senderId |-> d.senderId, receiverId |-> d.receiverId,
     message |-> d.message, jobId |-> d.jobId, timestamp |-> IsoZ(d.timestamp),
     read |-> d.read]

NewMessage(d) == [type |-> "new_message", payload |-> MsgForWs(d)]

\* msg_dict of a request that is not running
NoDict == [id |-> NoMsg]

\* create_message up to the await of insert_one
CreateMessageBegin(r, sender_id, receiverId, jobId, message) ==
    /\ rpc[r] = "idle"
    /\ rmsg' = [rmsg EXCEPT ![r] = [receiverId |-> receiverId, jobId |-> jobId,
                                     message |-> message, senderId |-> sender_id,
                                     timestamp |-> now, read |-> FALSE]]
    /\ rpc' = [rpc EXCEPT ![r] = "insert"]
    /\ last' = [op |-> "step"]
    /\ UNCHANGED <<wsVars, log, now, jobVars>>

\* the store performs the insert
DbInsert(r) ==
    /\ rpc[r] = "insert"
    /\ log' = InsertOne(rmsg[r])
    /\ rmsg' = [rmsg EXCEPT ![r] =
                  [id |-> StrId(Len(log) + 1), receiverId |-> @.receiverId,
                   jobId |-> @.jobId, message |-> @.message, senderId |-> @.senderId,
                   timestamp |-> @.timestamp, read |-> @.read]]
    /\ rpc' = [rpc EXCEPT ![r] = "inserted"]
    /\ last' = [op |-> "step"]
    /\ UNCHANGED <<wsVars, now, jobVars>>

\* insert_one raises: the exception leaves create_message
CreateMessageFails(r) ==
    /\ rpc[r] = "insert"
    /\ rpc' = [rpc EXCEPT ![r] = "idle"]
    /\ rmsg' = [rmsg EXCEPT ![r] = NoDict]
    /\ last' = [op |-> "send_rejected", req |-> r]
    /\ UNCHANGED <<wsVars, log, now, jobVars>>

\* what the push of create_message met
PushOutcome(user_id) ==
    IF active_connections[user_id] = NoConn THEN "absent"
    ELSE IF SendJsonRaises(active_connections[user_id]) THEN "failed"
    ELSE "sent"

\* create_message after insert_one returned: the push and the response
CreateMessageFinish(r) ==
    /\ rpc[r] = "inserted"
    /\ LET sm == SendMessage(rmsg[r].receiverId, NewMessage(rmsg[r])) IN
       /\ inbox' = sm.inbox
       /\ last' = IF sm.raised
                  THEN [op |-> "send_raised", req |-> r,
                        push |-> PushOutcome(rmsg[r].receiverId)]
                  ELSE [op |-> "send_ok", req |-> r,
                        push |-> PushOutcome(rmsg[r].receiverId),
                        ret |-> [id |-> rmsg[r].id, senderId |-> rmsg[r].senderId,
                                 receiverId |-> rmsg[r].receiverId,
                                 jobId |-> rmsg[r].jobId, message |-> rmsg[r].message,
                                 timestamp |-> IsoZ(rmsg[r].timestamp),
                                 read |-> rmsg[r].read]]
    /\ rpc' = [rpc EXCEPT ![r] = "idle"]
    /\ rmsg' = [rmsg EXCEPT ![r] = NoDict]
    /\ UNCHANGED <<active_connections, wpc, wuser, alive, registered, log, now, jobVars>>

\* a sort in the direction opposite to the one asked for
SortedReversed(S, dir) ==
    { p \in [1..Cardinality(S) -> S] :
        /\ \A i, j \in DOMAIN p : i # j => p[i] # p[j]
        /\ \A i, j \in DOMAIN p :
             i < j => dir * log[p[i]].timestamp >= dir * log[p[j]].timestamp }

\* the sequences that list the documents at the indices S once each, by
\* timestamp ascending (dir = 1) or descending (dir = -1); the order of
\* documents of equal timestamp is whatever the store yields
Sorted(S, dir) ==
    { p \in [1..Cardinality(S) -> S] :
        /\ \A i, j \in DOMAIN p : i # j => p[i] # p[j]
        /\ \A i, j \in DOMAIN p :
             i < j => dir * log[p[i]].timestamp <= dir * log[p[j]].timestamp }

Min(a, b) == IF a < b THEN a ELSE b

\* cursor.to_list(n)
ToList(seq, n) == SubSeq(seq, 1, Min(n, Len(seq)))

\* the find filter of get_user_messages
PairFilter(user_id, other_user_id) ==
    { i \in DOMAIN log :
        \/ log[i].senderId = user_id /\ log[i].receiverId = other_user_id
        \/ log[i].senderId = other_user_id /\ log[i].receiverId = user_id }

\* every list get_user_messages may answer in the current state
HistoryResults(user_id, other_user_id) ==
    { [k \in DOMAIN ToList(p, HistoryLimit) |-> SerializeDoc(log[p[k]])] :
        p \in Sorted(PairFilter(user_id, other_user_id), 1) }

GetUserMessages(user_id, other_user_id) ==
    /\ \E h \in HistoryResults(user_id, other_user_id) :
         last' = [op |-> "history", user_id |-> user_id,
                  other_user_id |-> other_user_id, result |-> h,
                  justSent |-> IF last.op = "send_ok" THEN last.ret ELSE NoDict]
    /\ UNCHANGED <<wsVars, log, now, reqVars, jobVars>>

Tick ==
    /\ now' = now + 1
    /\ last' = [op |-> "step"]
    /\ UNCHANGED <<wsVars, log, reqVars, jobVars>>

(* ---------------------------------------------------------------------- *)
(* get_conversations                                                       *)
(* ---------------------------------------------------------------------- *)
\* $match
ConvMatch(user_id) ==
    { i \in DOMAIN log : log[i].senderId = user_id \/ log[i].receiverId = user_id }

\* the _id expression of $group
GroupKey(user_id, doc) ==
    IF doc.senderId = user_id THEN doc.receiverId ELSE doc.senderId

\* $group with $last instead of $first
GroupLast(user_id, p, k) ==
    LET at == { j \in DOMAIN p : GroupKey(user_id, log[p[j]]) = k }
        j0 == CHOOSE j \in at : \A j2 \in at : j >= j2
    IN  log[p[j0]]

\* $group with $first over the sorted stream p: the first document of key k
GroupFirst(user_id, p, k) ==
    LET at == { j \in DOMAIN p : GroupKey(user_id, log[p[j]]) = k }
        j0 == CHOOSE j \in at : \A j2 \in at : j <= j2
    IN  log[p[j0]]

\* the streams of groups the pipeline may yield for the sorted stream p:
\* one group per key, in an order the store chooses
GroupStreams(user_id, p) ==
    LET keys == { GroupKey(user_id, log[p[j]]) : j \in DOMAIN p } IN
    { [n \in DOMAIN ks |-> [_id |-> ks[n], lastMessage |-> GroupFirst(user_id, p, ks[n])]] :
        ks \in { q \in [1..Cardinality(keys) -> keys] :
                   \A i, j \in DOMAIN q : i # j => q[i] # q[j] } }

\* the loop over the groups: ObjectId() raises on the first group whose key
\* is no ObjectId string; a group whose user is not found is skipped
RECURSIVE ConvLoop(_)
ConvLoop(convs) ==
    IF convs = <<>> THEN [raised |-> FALSE, result |-> <<>>]
    ELSE LET conv == Head(convs) IN
         IF ~ObjectIdValid(conv._id) THEN [raised |-> TRUE, result |-> <<>>]
         ELSE LET rest == ConvLoop(Tail(convs))
                  other_user == FindUser(conv._id)
              IN  IF rest.raised THEN rest
                  ELSE IF other_user # NoUser
                  THEN [raised |-> FALSE,
                        result |-> <<[userId |-> conv._id, userName |-> other_user.name,
                                      lastMessage |-> SerializeDoc(conv.lastMessage)]>>
                                   \o rest.result]
                  ELSE rest

\* every answer get_conversations may give in the current state
ConversationResults(user_id) ==
    UNION { { ConvLoop(ToList(g, ConvLimit)) : g \in GroupStreams(user_id, p) } :
              p \in Sorted(ConvMatch(user_id), -1) }

GetConversations(user_id) ==
    /\ \E a \in ConversationResults(user_id) :
         last' = [op |-> "conversations", user_id |-> user_id,
                  raised |-> a.raised, result |-> a.result]
    /\ UNCHANGED <<wsVars, log, now, reqVars, jobVars>>

(* ---------------------------------------------------------------------- *)
(* create_job and verify_payment of one employer.  The employer's document *)
(* exists with role "employer"; create_user gave it its free postings.     *)
(* ---------------------------------------------------------------------- *)
InitialFree == 2

JobReqs == 1..MaxJobReqs

msgVars == <<wsVars, log, now, reqVars>>

\* create_job: find_one returned the employer; with a free posting left the
\* request goes on to await the decrement, otherwise it raises 402
CreateJobFind(r) ==
    /\ jpc[r] = "idle"
    /\ IF freeJobsRemaining > 0
       THEN /\ jseen' = [jseen EXCEPT ![r] = freeJobsRemaining]
            /\ jpc' = [jpc EXCEPT ![r] = "decrement"]
            /\ last' = [op |-> "step"]
       ELSE /\ last' = [op |-> "job_payment_required", req |-> r]
            /\ UNCHANGED <<jseen, jpc>>
    /\ UNCHANGED <<msgVars, freeJobsRemaining, jobs, payments, transactions, ppc>>

\* the store performs update_one {"$inc": {"freeJobsRemaining": -1}}
CreateJobDecrement(r) ==
    /\ jpc[r] = "decrement"
    /\ freeJobsRemaining' = freeJobsRemaining - 1
    /\ jpc' = [jpc EXCEPT ![r] = "insert"]
    /\ last' = [op |-> "step"]
    /\ UNCHANGED <<msgVars, jobs, payments, transactions, jseen, ppc>>

\* the store performs db.jobs.insert_one and create_job returns the job
CreateJobInsert(r) ==
    /\ jpc[r] = "insert"
    /\ jobs' = jobs + 1
    /\ jpc' = [jpc EXCEPT ![r] = "idle"]
    /\ jseen' = [jseen EXCEPT ![r] = 0]
    /\ last' = [op |-> "job_created", req |-> r]
    /\ UNCHANGED <<msgVars, freeJobsRemaining, payments, transactions, ppc>>

\* verify_payment: find_one returned the employer, the role is "employer"
VerifyPaymentFind ==
    /\ ppc = "idle"
    /\ ppc' = "credit"
    /\ last' = [op |-> "step"]
    /\ UNCHANGED <<msgVars, freeJobsRemaining, jobs, payments, transactions, jpc, jseen>>

\* the store performs update_one {"$inc": {"freeJobsRemaining": 1}}
VerifyPaymentCredit ==
    /\ ppc = "credit"
    /\ freeJobsRemaining' = freeJobsRemaining + 1
    /\ payments' = payments + 1
    /\ ppc' = "transaction"
    /\ last' = [op |-> "step"]
    /\ UNCHANGED <<msgVars, jobs, transactions, jpc, jseen>>

\* the store performs db.transactions.insert_one and verify_payment returns
VerifyPaymentSave ==
    /\ ppc = "transaction"
    /\ transactions' = transactions + 1
    /\ ppc' = "idle"
    /\ last' = [op |-> "payment_verified"]
    /\ UNCHANGED <<msgVars, freeJobsRemaining, jobs, payments, jpc, jseen>>

(* ---------------------------------------------------------------------- *)
(* Specification                                                           *)
(* ---------------------------------------------------------------------- *)
Init ==
    /\ active_connections = [u \in UserIds |-> NoConn]
    /\ wpc = [c \in Conns |-> "idle"]
    /\ wuser = [c \in Conns |-> U1]
    /\ alive = [c \in Conns |-> FALSE]
    /\ inbox = [c \in Conns |-> <<>>]
    /\ registered = <<>>
    /\ log = <<>>
    /\ now = 0
    /\ rpc = [r \in Reqs |-> "idle"]
    /\ rmsg = [r \in Reqs |-> NoDict]
    /\ last = [op |-> "init"]
    /\ freeJobsRemaining = InitialFree
    /\ jobs = 0
    /\ payments = 0
    /\ transactions = 0
    /\ jpc = [r \in JobReqs |-> "idle"]
    /\ jseen = [r \in JobReqs |-> 0]
    /\ ppc = "idle"

FramesSent == LET RECURSIVE Sum(_)
                  Sum(S) == IF S = {} THEN 0
                            ELSE LET c == CHOOSE c \in S : TRUE
                                 IN  Len(inbox[c]) + Sum(S \ {c})
              IN  Sum(Conns)

InFlight == Cardinality({r \in Reqs : rpc[r] = "insert"})

\* a fresh connection takes the next handle, a new request the first free slot
FreeReq(r) == rpc[r] = "idle" /\ \A q \in Reqs : q < r => rpc[q] # "idle"

Fresh(c) == \A d \in Conns : d < c <=> wpc[d] # "idle"

(* Spec: the registry and the socket handlers, with pushes from create_message *)
Next ==
    \/ \E c \in Conns, u \in {U1, U2} : Fresh(c) /\ WsAccept(c, u)
    \/ \E c \in Conns : WsRegister(c)
    \/ \E c \in Conns : PeerClose(c)
    \/ \E c \in Conns : WsAcceptFails(c)
    \/ \E c \in Conns, d \in InFrames : FramesSent < MaxFrames /\ WsReceive(c, d)
    \/ \E c \in Conns : WsDisconnect(c)
    \/ \E t \in {U1, U2}, j \in JobIds, b \in Bodies :
          /\ Len(log) + InFlight < MaxPushMsgs /\ FramesSent < MaxFrames
          /\ CreateMessageBegin(1, U1, t, j, b)
    \/ DbInsert(1)
    \/ CreateMessageFails(1)
    \/ CreateMessageFinish(1)

Spec == Init /\ [][Next]_vars

(* SpecStore: create_message and get_user_messages, with a connection of U2 *)
StorePairs == {<<U1, U2>>, <<U2, U1>>, <<U1, Ghost>>}

NextStore ==
    \/ \E c \in 1..MaxStoreConns : Fresh(c) /\ WsAccept(c, U2)
    \/ \E c \in Conns : WsRegister(c)
    \/ \E c \in Conns : PeerClose(c)
    \/ \E c \in Conns : WsAcceptFails(c)
    \/ \E c \in Conns : WsDisconnect(c)
    \/ \E r \in Reqs, st \in StorePairs, j \in JobIds, b \in Bodies :
          /\ Len(log) + InFlight < MaxMsgs /\ FreeReq(r)
          /\ CreateMessageBegin(r, st[1], st[2], j, b)
    \/ \E r \in Reqs : DbInsert(r)
    \/ \E r \in Reqs : CreateMessageFails(r)
    \/ \E r \in Reqs : CreateMessageFinish(r)
    \/ \E ab \in StorePairs : GetUserMessages(ab[1], ab[2])
    \/ now < MaxTime /\ Tick

SpecStore == Init /\ [][NextStore]_vars

(* SpecConv: create_message towards every kind of identifier, get_conversations *)
ConvPairs == {<<U1, U2>>, <<U2, U1>>, <<U1, Ghost>>, <<U1, Malformed>>, <<U1, U1>>}

NextConv ==
    \/ \E s \in UserIds, t \in UserIds, j \in JobIds, b \in Bodies :
          /\ <<s, t>> \in ConvPairs
          /\ Len(log) + InFlight < MaxConvMsgs
          /\ CreateMessageBegin(1, s, t, j, b)
    \/ DbInsert(1)
    \/ CreateMessageFails(1)
    \/ CreateMessageFinish(1)
    \/ GetConversations(U1)
    \/ now < MaxTime /\ Tick

SpecConv == Init /\ [][NextConv]_vars

(* ---------------------------------------------------------------------- *)
(* Properties of the registry and the socket handler (Spec)                *)
(* ---------------------------------------------------------------------- *)
\* the connection connect() installed last for user u
Newest(u) ==
    LET at == { i \in DOMAIN registered : wuser[registered[i]] = u } IN
    IF at = {} THEN NoConn
    ELSE registered[CHOOSE i \in at : \A j \in at : j <= i]

\* the user a step's push is addressed to
Addressee(l) ==
    IF l.op = "receive" THEN wuser[l.conn]
    ELSE IF l.op = "send_ok" THEN l.ret.receiverId
    ELSE <<>>

\* C1: once a later connection is registered for a user, a push addressed to
\* that user (from create_message or from a ping) is transmitted on the
\* connection registered last for the user and on no other: a connection
\* that was replaced receives no further frame.
C1_PushOnlyOnNewest ==
    [][\A c \in Conns :
         inbox'[c] # inbox[c] =>
            /\ wuser[c] = Addressee(last')
            /\ c = Newest(wuser[c])]_vars

C1_Witness ==
    /\ Len(registered) = 2
    /\ wuser[registered[1]] = wuser[registered[2]]
    /\ wpc[registered[1]] = "open" /\ alive[registered[1]]
    /\ inbox[registered[1]] = <<>>
    /\ \E k \in DOMAIN inbox[registered[2]] : inbox[registered[2]][k] = Pong
    /\ \E k \in DOMAIN inbox[registered[2]] : inbox[registered[2]][k].type = "new_message"

\* C2: if the connection registered last for user u is still open, the
\* registry maps u to that connection.
C2_NewestOpenIsRegistered ==
    \A u \in UserIds :
        (Newest(u) # NoConn /\ wpc[Newest(u)] = "open") => active_connections[u] = Newest(u)

\* C3: a ping frame received on an open channel of user u produces exactly
\* one pong frame, transmitted to u and to nobody else, and leaves the
\* message log unchanged.
C3_PingGetsOnePong ==
    [][(last'.op = "receive" /\ last'.data = PingFrame) =>
          /\ \E c \in Conns :
                /\ wuser[c] = wuser[last'.conn]
                /\ inbox'[c] = Append(inbox[c], Pong)
                /\ \A d \in Conns \ {c} : inbox'[d] = inbox[d]
          /\ log' = log]_vars

\* a frame that is no JSON, or JSON without a recognized type
Unrecognized(data) == ~data.json \/ data.value # PingFrame.value

\* C4: a frame that fails to parse, or parses to any JSON value without a
\* recognized type, is discarded: the channel stays open, the registry and
\* the transmitted frames are unchanged, the handler receives on.
C4_UnrecognizedDiscarded ==
    [][(last'.op = "receive" /\ Unrecognized(last'.data)) =>
          /\ wpc'[last'.conn] = "open"
          /\ alive'[last'.conn]
          /\ active_connections' = active_connections
          /\ inbox' = inbox]_vars

(* ---------------------------------------------------------------------- *)
(* Properties of create_message and get_user_messages (SpecStore)          *)
(* ---------------------------------------------------------------------- *)
\* the step was get_user_messages for the pair of the message that the
\* step before it, a create_message that returned, had sent
HistoryRightAfterSend ==
    /\ last.op = "history"
    /\ last.justSent # NoDict
    /\ {last.user_id, last.other_user_id} = {last.justSent.senderId, last.justSent.receiverId}

\* the logged messages of the pair of message m other than m
OthersOfPair(m) ==
    { i \in PairFilter(m.senderId, m.receiverId) : StrId(log[i]._id) # m.id }

\* the other messages of the pair are older than the message just sent
\* (no send of the same instant, none that overlapped)
JustSentIsLatest ==
    \A i \in OthersOfPair(last.justSent) : log[i].timestamp < last.justSent.timestamp.iso

\* C5 as stated: history called right after a send, the message just sent
\* being the latest of the pair, returns it as the last element, however
\* many messages the pair holds.
C5_JustSentIsLast ==
    (HistoryRightAfterSend /\ JustSentIsLatest) =>
        /\ last.result # <<>>
        /\ last.result[Len(last.result)].id = last.justSent.id

\* C5 amended: ... provided the pair held fewer messages than the record
\* limit before the send.
C5_JustSentIsLastBelowLimit ==
    ( /\ HistoryRightAfterSend
      /\ JustSentIsLatest
      /\ Cardinality(OthersOfPair(last.justSent)) < HistoryLimit )
    =>
        /\ last.result # <<>>
        /\ last.result[Len(last.result)].id = last.justSent.id

C5_Witness ==
    /\ HistoryRightAfterSend
    /\ Cardinality(OthersOfPair(last.justSent)) = HistoryLimit - 1
    /\ Len(last.result) = HistoryLimit
    /\ JustSentIsLatest
    /\ \E i \in OthersOfPair(last.justSent) : log[i].senderId = last.justSent.receiverId

\* the response of create_message is the record the log holds
Persisted(ret) ==
    \E i \in DOMAIN log :
        /\ StrId(log[i]._id) = ret.id
        /\ log[i].senderId = ret.senderId /\ log[i].receiverId = ret.receiverId
        /\ log[i].jobId = ret.jobId /\ log[i].message = ret.message
        /\ IsoZ(log[i].timestamp) = ret.timestamp /\ log[i].read = ret.read

\* every answer of get_user_messages for the pair of ret holds ret
Retrievable(ret) ==
    \A h \in HistoryResults(ret.senderId, ret.receiverId) :
        \E k \in DOMAIN h : h[k].id = ret.id

\* a step in which create_message, the insert done, pushes and ends while
\* the receiver has no registry entry or one whose transmission fails
SendWithoutLiveChannel ==
    /\ last'.op \in {"send_ok", "send_raised"}
    /\ last'.push \in {"absent", "failed"}

\* C7 as stated: with no registry entry for the receiver, or one whose
\* transmission fails, send raises nothing, returns the persisted record,
\* the message is retrievable through history, and the registry is unchanged.
C7_SendIgnoresChannel ==
    [][SendWithoutLiveChannel =>
          /\ last'.op = "send_ok"
          /\ Persisted(last'.ret)
          /\ Retrievable(last'.ret)
          /\ active_connections' = active_connections
          /\ inbox' = inbox]_vars

\* C7 amended: ... the message is retrievable through history when the
\* pair holds no more messages than the record limit.
C7_SendIgnoresChannelBelowLimit ==
    [][SendWithoutLiveChannel =>
          /\ last'.op = "send_ok"
          /\ Persisted(last'.ret)
          /\ Cardinality(PairFilter(last'.ret.senderId, last'.ret.receiverId)) <= HistoryLimit
                => Retrievable(last'.ret)
          /\ active_connections' = active_connections
          /\ inbox' = inbox]_vars

C7_Witness ==
    /\ last.op = "send_ok"
    /\ last.push = "failed"
    /\ active_connections[last.ret.receiverId] # NoConn
    /\ Cardinality(PairFilter(last.ret.senderId, last.ret.receiverId)) = HistoryLimit

\* C8: a send to a receiver whose registered channel is open transmits on
\* that channel, before it returns, exactly one new_message frame whose
\* payload has the id, sender, receiver, job and body of the persisted
\* record; history on the pair, empty before, then answers that one record
\* with read = false.
C8_PushedWithinSend ==
    [][(last'.op = "send_ok" /\ last'.push = "sent") =>
          LET ret == last'.ret
              c == active_connections[ret.receiverId]
              f == inbox'[c][Len(inbox'[c])]
          IN  /\ Persisted(ret)
              /\ wpc[c] = "open" /\ wuser[c] = ret.receiverId
              /\ Len(inbox'[c]) = Len(inbox[c]) + 1
              /\ SubSeq(inbox'[c], 1, Len(inbox[c])) = inbox[c]
              /\ \A d \in Conns \ {c} : inbox'[d] = inbox[d]
              /\ f.type = "new_message"
              /\ f.payload.id = ret.id /\ f.payload.senderId = ret.senderId
              /\ f.payload.receiverId = ret.receiverId /\ f.payload.jobId = ret.jobId
              /\ f.payload.message = ret.message
              /\ Cardinality(PairFilter(ret.senderId, ret.receiverId)) = 1 =>
                    \A h \in HistoryResults(ret.senderId, ret.receiverId) :
                        Len(h) = 1 /\ h[1].id = ret.id /\ h[1].read = FALSE]_vars

C8_Witness ==
    /\ last.op = "send_ok"
    /\ last.push = "sent"
    /\ last.ret.senderId = U1 /\ last.ret.receiverId = U2
    /\ Cardinality(PairFilter(U1, U2)) = 1
    /\ Len(log) > 1

\* the new_message frames transmitted so far
NewMessageFrames ==
    { f \in UNION { Range(inbox[c]) : c \in Conns } : f.type = "new_message" }

\* C9: every new_message frame transmitted refers to a message the log
\* holds, and a send whose append fails is rejected with the log unchanged
\* and nothing transmitted.
C9_AppendBeforePush ==
    /\ [](\A f \in NewMessageFrames :
            \E i \in DOMAIN log :
               /\ StrId(log[i]._id) = f.payload.id
               /\ log[i].senderId = f.payload.senderId
               /\ log[i].receiverId = f.payload.receiverId
               /\ log[i].message = f.payload.message)
    /\ [][last'.op = "send_rejected" =>
             log' = log /\ inbox' = inbox /\ rpc'[last'.req] = "idle"]_vars

C9_Witness ==
    /\ last.op = "send_rejected"
    /\ NewMessageFrames # {}

(* ---------------------------------------------------------------------- *)
(* Properties of get_conversations (SpecConv)                              *)
(* ---------------------------------------------------------------------- *)
\* the logged messages between user u and counterpart k, either direction
Between(u, k) ==
    { i \in DOMAIN log :
        \/ log[i].senderId = u /\ log[i].receiverId = k
        \/ log[i].senderId = k /\ log[i].receiverId = u }

\* C6: conversations(U) holds at most one entry per counterpart, and each
\* entry's lastMessage is a message between U and that counterpart of the
\* greatest timestamp among all messages between the two.
C6_OneLatestPerCounterpart ==
    (last.op = "conversations" /\ ~last.raised) =>
        /\ \A i, j \in DOMAIN last.result :
              i # j => last.result[i].userId # last.result[j].userId
        /\ \A i \in DOMAIN last.result :
              LET e == last.result[i] IN
              /\ \E k \in Between(last.user_id, e.userId) : SerializeDoc(log[k]) = e.lastMessage
              /\ \A k \in Between(last.user_id, e.userId) :
                    log[k].timestamp <= e.lastMessage.timestamp

C6_Witness ==
    /\ last.op = "conversations" /\ ~last.raised
    /\ \E i \in DOMAIN last.result :
          \E k, m \in Between(last.user_id, last.result[i].userId) :
              /\ log[k].timestamp < log[m].timestamp
              /\ log[k].senderId # log[m].senderId

\* the counterparts of user u in the log
Counterparts(u) == { GroupKey(u, log[i]) : i \in ConvMatch(u) }

\* the identifier resolves to a user of the directory
Resolves(k) == ObjectIdValid(k) /\ FindUser(k) # NoUser

\* C10: conversations(U) returns without raising on every log, omits
\* exactly the groups whose counterpart does not resolve, and returns a
\* summary for every group whose counterpart does resolve.
C10_DanglingDropped ==
    last.op = "conversations" =>
        /\ ~last.raised
        /\ { last.result[i].userId : i \in DOMAIN last.result }
              = { k \in Counterparts(last.user_id) : Resolves(k) }

(* ---------------------------------------------------------------------- *)
(* Properties of create_job and verify_payment (SpecJobs)                  *)
(* ---------------------------------------------------------------------- *)
NextJobs ==
    \/ \E r \in JobReqs : CreateJobFind(r)
    \/ \E r \in JobReqs : CreateJobDecrement(r)
    \/ \E r \in JobReqs : CreateJobInsert(r)
    \/ payments < MaxPayments /\ VerifyPaymentFind
    \/ VerifyPaymentCredit
    \/ VerifyPaymentSave

SpecJobs == Init /\ [][NextJobs]_vars

\* C11: under any interleaving of create_job and verify_payment requests
\* of one employer, freeJobsRemaining never is negative and the jobs
\* inserted for the employer never exceed the initial free quota plus the
\* payments verified.
C11_QuotaRespected ==
    /\ freeJobsRemaining >= 0
    /\ jobs <= InitialFree + payments

====
